---- MODULE Spec2Model ----
(***************************************************************************)
(* State-machine model of the explorer router of lotus-backend-ts          *)
(* (src/lib/api/routes/explorer.ts).                                       *)
(*                                                                         *)
(* Three groups of handlers are modelled, each with its own specification: *)
(*   SpecOverview  GET /overview: the peer loop, the private-address       *)
(*                 filter and the process-wide GEOIP_CACHE, with several   *)
(*                 requests interleaved at their awaits;                   *)
(*   SpecPage      GET /address/:address and GET /blocks: the page and     *)
(*                 page-size arithmetic;                                   *)
(*   SpecTx        GET /tx/:txid: confirmations, output enrichment and the *)
(*                 burned-sats counter, with the chain advancing between   *)
(*                 the handler's awaits.                                   *)
(* Node.js runs one task at a time: the code between two awaits is atomic. *)
(* The variable `running` holds the request whose synchronous segment is   *)
(* executing, so that other continuations start only at an await.          *)
(***************************************************************************)
EXTENDS Integers, Sequences, FiniteSets, TLC

VARIABLES
    nodePeers,    \* what rpcClient.getPeerInfo() returns: a sequence of peer addresses
    GEOIP_CACHE,  \* explorer.ts:129, Map<ip, GeoIPResponse>
    ov,           \* the /overview requests in flight: ov[r] = [pc, i, peers, ...]
    running,      \* the /overview request whose synchronous segment runs: {r}, or {} at an await
    pg,           \* the /address or /blocks request being served
    tipHeight,    \* the chain height known to the node and the indexer
    txBlock,      \* height of the block holding the looked-up transaction, 0 = unconfirmed
    txOutputs,    \* the outputs of the looked-up transaction
    tx,           \* the /tx/:txid request being served
    lk            \* the /block/:hashOrHeight or /address lookup request being served

vars == <<nodePeers, GEOIP_CACHE, ov, running, pg, tipHeight, txBlock, txOutputs, tx, lk>>

overviewVars == <<nodePeers, GEOIP_CACHE, ov, running>>
pageVars == <<pg>>
txVars == <<tipHeight, txBlock, txOutputs, tx>>
lookupVars == <<lk>>

(***************************************************************************)
(* Bounds of the model.                                                    *)
(***************************************************************************)
NumRequests == 2    \* /overview requests the process receives
MaxPeers == 2       \* length of the node's peer list

DEFAULT_PAGE_SIZE == 10
MAX_PAGE_SIZE == 40

Min(a, b) == IF a < b THEN a ELSE b
Max(a, b) == IF a > b THEN a ELSE b

(***************************************************************************)
(* GET /overview                                                           *)
(***************************************************************************)

(* A peer address as the node reports it. `host` is the IP literal, `port`  *)
(* the port suffix (0: none), `bracket` whether the literal is written      *)
(* "[host]:port" (the node's form for IPv6 with a port).  Examples:         *)
(*   [host |-> "192.168.1.5", port |-> 1234, bracket |-> FALSE]             *)
(*       is the string "192.168.1.5:1234";                                  *)
(*   [host |-> "::1", port |-> 8333, bracket |-> TRUE] is "[::1]:8333";     *)
(*   [host |-> "::1", port |-> 8333, bracket |-> FALSE] is "::1:8333";      *)
(*   [host |-> "::1", port |-> 0, bracket |-> FALSE] is "::1".              *)
Ports == {8333, 9000}

(* The hosts of the model that lie in a private, loopback or link-local    *)
(* range: 192.168.0.0/16 and ::1.                                          *)
PrivateHosts == {"192.168.1.5", "::1"}

(* The addresses the node reports in the model: a public host connected     *)
(* twice (two ports), a private IPv4 host with a port, and the IPv6         *)
(* loopback bare and in the node's bracketed form with a port.              *)
PeerAddrs ==
    {[host |-> "8.8.8.8", port |-> p, bracket |-> FALSE] : p \in Ports}
    \cup {[host |-> "192.168.1.5", port |-> 8333, bracket |-> FALSE],
          [host |-> "::1", port |-> 0, bracket |-> FALSE],
          [host |-> "::1", port |-> 8333, bracket |-> TRUE]}

(* explorer.ts:157-159  /^(127\.|10\.|192\.168\.|172\.(1[6-9]|2[0-9]|3[0-1])\.|169\.254\.)/ *)
(* The pattern is anchored at the start of peer.addr only, so it matches an *)
(* address that begins with a private IPv4 prefix, with or without a port.  *)
(* A bracketed address begins with "[" and never matches.                   *)
MatchesPrivateIPv4(addr) ==
    /\ ~addr.bracket
    /\ addr.host \in {"192.168.1.5"}

(* explorer.ts:160-162  /^(::1$|[fF][cCdD][0-9a-fA-F]{2}:|[fF][eE][89aAbB][0-9a-fA-F]:)/ *)
(* The loopback alternative is anchored at both ends: it matches the string *)
(* "::1" alone, not "::1:8333" and not "[::1]:8333".  No host of the model  *)
(* begins with an fc/fd/fe8-feb group.                                      *)
MatchesPrivateIPv6(addr) ==
    /\ ~addr.bracket
    /\ addr.host = "::1"
    /\ addr.port = 0

(* explorer.ts:156-165 *)
IsSkippedPeer(addr) == MatchesPrivateIPv4(addr) \/ MatchesPrivateIPv6(addr)

(* explorer.ts:168  const [ip] = peer.addr.split(/\:\d{1,5}$/)              *)
(* The text before a trailing ":<digits>".  With a port the suffix removed  *)
(* is the port and the brackets stay ("[::1]:8333" gives "[::1]").  Without *)
(* a port an IPv4 literal is returned whole; the bare "::1" ends in ":1",   *)
(* which the pattern takes for a port, leaving ":" (cut |-> TRUE).          *)
StripPort(addr) ==
    [host |-> addr.host,
     bracket |-> addr.bracket,
     cut |-> (addr.port = 0 /\ addr.host = "::1")]

GeoData == {"geoA", "geoB"}

(* The parsed body of the geolocation service's answer (GeoIPResponse,      *)
(* explorer.ts:114-125).                                                    *)
GeoIPResponses ==
    {[success |-> TRUE, data |-> d] : d \in GeoData}
    \cup {[success |-> FALSE, data |-> "none"]}

(* The /overview requests of a run.  A request that has responded or was    *)
(* rejected stays so; a later request is another element of the set.        *)
Requests == 1..NumRequests

PeerLists == UNION {[1..n -> PeerAddrs] : n \in 0..MaxPeers}

(* A request: its position (pc), the index i of the peer the loop is at and  *)
(* the peers array.  Two history fields record what the request did:        *)
(* fetches, the number of fetch() calls it issued, and missed, whether the  *)
(* key of the lookup it is suspended at was absent when it checked.         *)
IdleOverview == [pc |-> "idle", i |-> 1, peers |-> <<>>, fetches |-> 0, missed |-> FALSE]

(* The handler's promise rejected: its locals are gone and it sends nothing. *)
Rejected == [IdleOverview EXCEPT !.pc = "rejected"]

CacheHasNever(ip) == FALSE

(* explorer.ts:170  GEOIP_CACHE.has(ip) *)
CacheHas(ip) == ip \in DOMAIN GEOIP_CACHE

(* explorer.ts:182  GEOIP_CACHE.set(ip, json) *)
CacheSet(ip, json) ==
    [k \in DOMAIN GEOIP_CACHE \cup {ip} |-> IF k = ip THEN json ELSE GEOIP_CACHE[k]]

(* explorer.ts:171-175 and 183-187: { ...peer, addr: ip, geoip }.  The peer's *)
(* own fields are represented by its position in the node's list.           *)
PeerEntry(i, ip, geoip) == [id |-> i, addr |-> ip, geoip |-> geoip]

CurAddr(r) == nodePeers[ov[r].i]
InLoop(r) == running = {r} /\ ov[r].pc = "loop" /\ ov[r].i <= Len(nodePeers)

(* explorer.ts:151-152: the handler starts and suspends at getPeerInfo().   *)
(* Requests are numbered in their order of arrival.                         *)
OverviewRequest(r) ==
    /\ running = {}
    /\ ov[r].pc = "idle"
    /\ \A q \in Requests : q < r => ov[q].pc # "idle"
    /\ ov' = [ov EXCEPT ![r].pc = "awaitPeerInfo"]
    /\ UNCHANGED <<nodePeers, GEOIP_CACHE, running>>
    /\ UNCHANGED <<pageVars, txVars, lookupVars>>

(* explorer.ts:152-154: getPeerInfo() resolves, the loop starts. *)
OverviewPeerInfo(r) ==
    /\ running = {}
    /\ ov[r].pc = "awaitPeerInfo"
    /\ ov' = [ov EXCEPT ![r] = [IdleOverview EXCEPT !.pc = "loop"]]
    /\ running' = {r}
    /\ UNCHANGED <<nodePeers, GEOIP_CACHE>>
    /\ UNCHANGED <<pageVars, txVars, lookupVars>>

(* explorer.ts:156-165: a peer matching either pattern is skipped. *)
OverviewSkipPrivate(r) ==
    /\ InLoop(r)
    /\ IsSkippedPeer(CurAddr(r))
    /\ ov' = [ov EXCEPT ![r].i = @ + 1]
    /\ UNCHANGED <<nodePeers, GEOIP_CACHE, running>>
    /\ UNCHANGED <<pageVars, txVars, lookupVars>>

OverviewCacheHitNoContinue(r) ==
    /\ InLoop(r)
    /\ ~IsSkippedPeer(CurAddr(r))
    /\ LET ip == StripPort(CurAddr(r)) IN
        /\ CacheHas(ip)
        /\ ov' = [ov EXCEPT ![r].peers =
                        Append(@, PeerEntry(ov[r].i, ip, GEOIP_CACHE[ip].data)),
                     ![r].pc = "awaitFetch",
                     ![r].fetches = @ + 1,
                     ![r].missed = FALSE]
    /\ running' = {}
    /\ UNCHANGED <<nodePeers, GEOIP_CACHE>>
    /\ UNCHANGED <<pageVars, txVars, lookupVars>>

(* explorer.ts:170-177: cache hit. *)
OverviewCacheHit(r) ==
    /\ InLoop(r)
    /\ ~IsSkippedPeer(CurAddr(r))
    /\ LET ip == StripPort(CurAddr(r)) IN
        /\ CacheHas(ip)
        /\ ov' = [ov EXCEPT ![r].peers =
                        Append(@, PeerEntry(ov[r].i, ip, GEOIP_CACHE[ip].data)),
                     ![r].i = @ + 1]
    /\ UNCHANGED <<nodePeers, GEOIP_CACHE, running>>
    /\ UNCHANGED <<pageVars, txVars, lookupVars>>

(* explorer.ts:178: cache miss, the handler suspends at fetch(). *)
OverviewCacheMiss(r) ==
    /\ InLoop(r)
    /\ ~IsSkippedPeer(CurAddr(r))
    /\ ~CacheHas(StripPort(CurAddr(r)))
    /\ ov' = [ov EXCEPT ![r].pc = "awaitFetch",
                         ![r].fetches = @ + 1,
                         ![r].missed = (StripPort(CurAddr(r)) \notin DOMAIN GEOIP_CACHE)]
    /\ running' = {}
    /\ UNCHANGED <<nodePeers, GEOIP_CACHE>>
    /\ UNCHANGED <<pageVars, txVars, lookupVars>>

(* explorer.ts:178-179: fetch() resolves, the handler suspends at response.json(). *)
OverviewFetchResolved(r) ==
    /\ running = {}
    /\ ov[r].pc = "awaitFetch"
    /\ ov' = [ov EXCEPT ![r].pc = "awaitJson"]
    /\ UNCHANGED <<nodePeers, GEOIP_CACHE, running>>
    /\ UNCHANGED <<pageVars, txVars, lookupVars>>

(* explorer.ts:178: fetch() rejects (the service is unreachable).  No        *)
(* try/catch surrounds the await: the handler's promise rejects and          *)
(* lines 179-196 never run for this request.                                *)
OverviewFetchRejected(r) ==
    /\ running = {}
    /\ ov[r].pc = "awaitFetch"
    /\ ov' = [ov EXCEPT ![r] = Rejected]
    /\ UNCHANGED <<nodePeers, GEOIP_CACHE, running>>
    /\ UNCHANGED <<pageVars, txVars, lookupVars>>

(* explorer.ts:179: response.json() rejects (the body is not JSON). *)
OverviewJsonRejected(r) ==
    /\ running = {}
    /\ ov[r].pc = "awaitJson"
    /\ ov' = [ov EXCEPT ![r] = Rejected]
    /\ UNCHANGED <<nodePeers, GEOIP_CACHE, running>>
    /\ UNCHANGED <<pageVars, txVars, lookupVars>>

(* explorer.ts:179-189: the body is parsed; on success the answer is cached  *)
(* and the peer pushed; the loop goes on with the next peer.                *)
OverviewJsonResolved(r, json) ==
    /\ running = {}
    /\ ov[r].pc = "awaitJson"
    /\ LET ip == StripPort(CurAddr(r)) IN
        IF json.success
        THEN /\ GEOIP_CACHE' = CacheSet(ip, json)
             /\ ov' = [ov EXCEPT ![r].pc = "loop", ![r].i = @ + 1, ![r].missed = FALSE,
                        ![r].peers = Append(@, PeerEntry(ov[r].i, ip, json.data))]
        ELSE /\ GEOIP_CACHE' = GEOIP_CACHE
             /\ ov' = [ov EXCEPT ![r].pc = "loop", ![r].i = @ + 1, ![r].missed = FALSE]
    /\ running' = {r}
    /\ UNCHANGED nodePeers
    /\ UNCHANGED <<pageVars, txVars, lookupVars>>

(* explorer.ts:189-191: the loop is over, the handler suspends at getMiningInfo(). *)
OverviewLoopEnd(r) ==
    /\ running = {r}
    /\ ov[r].pc = "loop"
    /\ ov[r].i > Len(nodePeers)
    /\ ov' = [ov EXCEPT ![r].pc = "awaitMiningInfo"]
    /\ running' = {}
    /\ UNCHANGED <<nodePeers, GEOIP_CACHE>>
    /\ UNCHANGED <<pageVars, txVars, lookupVars>>

(* explorer.ts:191-196: sendJSON(res, { miningInfo, peerInfo: peers }). *)
OverviewRespond(r) ==
    /\ running = {}
    /\ ov[r].pc = "awaitMiningInfo"
    /\ ov' = [ov EXCEPT ![r].pc = "responded"]
    /\ UNCHANGED <<nodePeers, GEOIP_CACHE, running>>
    /\ UNCHANGED <<pageVars, txVars, lookupVars>>

(***************************************************************************)
(* GET /address/:address and GET /blocks: page and page size               *)
(***************************************************************************)
MaxPageInput == 3     \* largest page number a client sends
MaxTip == 42          \* largest tip height the indexer reports
OverMax == 2          \* how far above MAX_PAGE_SIZE the pageSize inputs go

(* A query parameter: absent, a non-numeric string ("abc"), or the decimal *)
(* text of an integer ("", which Number() reads as 0, is the integer 0).   *)
QueryValues(ints) ==
    {[kind |-> "absent", n |-> 0], [kind |-> "text", n |-> 0]}
    \cup {[kind |-> "int", n |-> k] : k \in ints}

PageInputs == QueryValues(-2..MaxPageInput)
PageSizeInputs == QueryValues((-2..(MAX_PAGE_SIZE + OverMax)) \cup {100})

(* Number(x): NaN for undefined and for a non-numeric string. *)
Number(q) ==
    IF q.kind = "int" THEN [nan |-> FALSE, n |-> q.n] ELSE [nan |-> TRUE, n |-> 0]

(* x || d on numbers: NaN and 0 are falsy. *)
OrElse(v, d) == IF v.nan \/ v.n = 0 THEN d ELSE v.n

(* The page values of /address also hold texts that Number() reads as a    *)
(* fraction: [kind |-> "half", n |-> k] is the decimal text of k/2 for an   *)
(* odd k ("0.5" for k = 1, "-0.5" for k = -1, "1.5" for k = 3).             *)
AddressPageInputs ==
    PageInputs
    \cup {[kind |-> "half", n |-> k] : k \in {j \in -1..(2 * MaxPageInput) : j % 2 = 1}}

(* Number(x) counted in halves, so that a fraction stays exact: 2n for the  *)
(* integer n, k for the text of k/2.                                        *)
NumberInHalves(q) ==
    CASE q.kind = "int" -> [nan |-> FALSE, n |-> 2 * q.n]
      [] q.kind = "half" -> [nan |-> FALSE, n |-> q.n]
      [] OTHER -> [nan |-> TRUE, n |-> 0]

(* explorer.ts:226  Number(query.page) || 1, in halves (1 is two halves). *)
AddressPageNum(page) == OrElse(NumberInHalves(page), 2)

(* explorer.ts:227-230 *)
AddressPageSize(pageSize) ==
    LET pageSizeNum == OrElse(Number(pageSize), DEFAULT_PAGE_SIZE) IN
    IF pageSizeNum > MAX_PAGE_SIZE THEN MAX_PAGE_SIZE ELSE pageSizeNum

(* explorer.ts:241  pageNum > 0 ? pageNum - 1 : 0, in halves. *)
HistoryOffset(pageNum) == IF pageNum > 0 THEN pageNum - 2 ELSE 0

(* explorer.ts:341 *)
BlocksPageNum(page) == OrElse(Number(page), 1)

(* explorer.ts:342-345 *)
BlocksPageSize(pageSize) ==
    LET pageSizeNum == OrElse(Number(pageSize), DEFAULT_PAGE_SIZE) IN
    IF pageSizeNum > MAX_PAGE_SIZE THEN MAX_PAGE_SIZE ELSE pageSizeNum

BlocksRangeNoFloor(tip, pageNum, pageSizeNum) ==
    LET startHeight == tip - pageSizeNum * pageNum
        endHeight == startHeight
            + (IF pageSizeNum > MAX_PAGE_SIZE THEN MAX_PAGE_SIZE ELSE pageSizeNum)
    IN [lo |-> startHeight + 1, hi |-> endHeight]

(* explorer.ts:348-354: the arguments of chronikClient.blocks(). *)
BlocksRange(tip, pageNum, pageSizeNum) ==
    LET startHeight == tip - pageSizeNum * pageNum
        endHeight == startHeight
            + (IF pageSizeNum > MAX_PAGE_SIZE THEN MAX_PAGE_SIZE ELSE pageSizeNum)
    IN [lo |-> IF startHeight + 1 > 0 THEN startHeight + 1 ELSE 1, hi |-> endHeight]

RECURSIVE Reverse(_)
(* explorer.ts:357  blocks.reverse() *)
Reverse(s) == IF s = <<>> THEN <<>> ELSE Append(Reverse(Tail(s)), Head(s))

(* explorer.ts:351: what the indexer answers to blocks(lo, hi): the blocks  *)
(* of the chain whose height lies in lo..hi, by ascending height, each      *)
(* represented by its height.                                              *)
IndexerBlocks(tip, lo, hi) ==
    LET last == Min(hi, tip)
        first == Max(lo, 0)
    IN IF last < first THEN <<>> ELSE [k \in 1..(last - first + 1) |-> first + k - 1]

IdlePage ==
    [handler |-> "none", pc |-> "idle",
     page |-> [kind |-> "absent", n |-> 0], pageSize |-> [kind |-> "absent", n |-> 0],
     pageNum |-> 0, pageSizeNum |-> 0, tip |-> 0,
     argA |-> 0, argB |-> 0, blocks |-> <<>>]

(* explorer.ts:215-243: a valid address; the handler computes the page and  *)
(* suspends at scriptEndpoint.history(argA, argB).  For this handler        *)
(* pageNum and argA (the page offset) are counted in halves.                *)
AddressRequest(page, pageSize) ==
    /\ pg.pc = "idle"
    /\ LET pageNum == AddressPageNum(page)
           pageSizeNum == AddressPageSize(pageSize)
       IN pg' = [IdlePage EXCEPT
                    !.handler = "address", !.pc = "awaitHistory",
                    !.page = page, !.pageSize = pageSize,
                    !.pageNum = pageNum, !.pageSizeNum = pageSizeNum,
                    !.argA = HistoryOffset(pageNum), !.argB = pageSizeNum]
    /\ UNCHANGED <<overviewVars, txVars, lookupVars>>

(* explorer.ts:339-347: the handler computes the page and suspends at       *)
(* chronikClient.blockchainInfo().                                          *)
BlocksRequest(page, pageSize) ==
    /\ pg.pc = "idle"
    /\ pg' = [IdlePage EXCEPT
                !.handler = "blocks", !.pc = "awaitChainInfo",
                !.page = page, !.pageSize = pageSize,
                !.pageNum = BlocksPageNum(page),
                !.pageSizeNum = BlocksPageSize(pageSize)]
    /\ UNCHANGED <<overviewVars, txVars, lookupVars>>

(* explorer.ts:347-354: blockchainInfo() resolves with the tip height; the  *)
(* handler suspends at chronikClient.blocks(argA, argB).                    *)
BlocksChainInfo(tip) ==
    /\ pg.pc = "awaitChainInfo"
    /\ LET range == BlocksRange(tip, pg.pageNum, pg.pageSizeNum) IN
        pg' = [pg EXCEPT !.pc = "awaitBlocks", !.tip = tip,
                         !.argA = range.lo, !.argB = range.hi]
    /\ UNCHANGED <<overviewVars, txVars, lookupVars>>

(* explorer.ts:351-359: blocks() resolves; the response lists the blocks by *)
(* descending height.                                                      *)
BlocksRespond ==
    /\ pg.pc = "awaitBlocks"
    /\ pg' = [pg EXCEPT !.pc = "responded",
                        !.blocks = Reverse(IndexerBlocks(pg.tip, pg.argA, pg.argB))]
    /\ UNCHANGED <<overviewVars, txVars, lookupVars>>

(* The request is over (for /address, after the history call returns). *)
PageDone ==
    /\ pg.pc \in {"awaitHistory", "responded"}
    /\ pg' = IdlePage
    /\ UNCHANGED <<overviewVars, txVars, lookupVars>>

(***************************************************************************)
(* GET /tx/:txid                                                           *)
(***************************************************************************)
MaxHeight == 3     \* highest chain tip
MaxValue == 2      \* largest output value, in satoshis
MaxOutputs == 2    \* most outputs of a transaction

(* The shapes of output script the handlers tell apart, with an example of  *)
(* the hex the indexer gives for each:                                      *)
(*   "rank"      6a 04 "RANK" ...   OP_RETURN and pushes, a RANK payload    *)
(*   "nulldata"  6a 04 deadbeef     OP_RETURN and pushes, no RANK payload   *)
(*   "opreturn"  6a 76              OP_RETURN followed by a non-push opcode *)
(*   "p2pkh"     76 a9 14 <20> 88 ac                                        *)
(*   "p2sh"      a9 14 <20> 87                                              *)
(*   "p2tr"      62 51 21 <33>                                              *)
(*   "other"     21 <33> ac         (pay to public key)                    *)
ScriptKinds == {"rank", "nulldata", "opreturn", "p2pkh", "p2sh", "p2tr", "other"}

(* explorer.ts:492  output.outputScript.startsWith('6a') *)
StartsWith6a(script) == script \in {"rank", "nulldata", "opreturn"}

(* explorer.ts:449  script.isDataOut(): the first opcode is OP_RETURN and   *)
(* what follows is push-only.                                               *)
isDataOut(script) == script \in {"rank", "nulldata"}

(* explorer.ts:453-455  rank.processScriptRANK(): the payload, or null. *)
processScriptRANK(script) == IF script = "rank" THEN "rankPayload" ELSE "null"

(* explorer.ts:467-469 *)
isAddressOut(script) == script \in {"p2pkh", "p2sh", "p2tr"}

(* explorer.ts:471  script.toAddress()!.toString() *)
toAddress(script) ==
    CASE script = "p2pkh" -> "addressP2PKH"
      [] script = "p2sh" -> "addressP2SH"
      [] script = "p2tr" -> "addressP2TR"

(* A TxOutput of the indexer.  Values are arbitrary-precision integers      *)
(* (BigInt(output.value)); their decimal text is not modelled.              *)
TxOutputs == [value : 0..MaxValue, outputScript : ScriptKinds]
OutputLists == UNION {[1..n -> TxOutputs] : n \in 0..MaxOutputs}

(* An output of the response: the output's own fields and the optional      *)
(* address and rankOutput, "absent" when the object has no such field.      *)
Plain(output) ==
    [value |-> output.value, outputScript |-> output.outputScript,
     address |-> "absent", rankOutput |-> "absent"]

toExplorerTxOutputNullAddress(output, counters) ==
    LET script == output.outputScript
        counted == IF isDataOut(script)
                   THEN [sumBurnedSats |-> counters.sumBurnedSats + output.value]
                   ELSE counters
    IN IF isDataOut(script) /\ processScriptRANK(script) # "null"
       THEN [out |-> [Plain(output) EXCEPT !.rankOutput = processScriptRANK(script)],
             counters |-> counted]
       ELSE IF isAddressOut(script)
       THEN [out |-> [Plain(output) EXCEPT !.address = toAddress(script)],
             counters |-> counted]
       ELSE [out |-> [Plain(output) EXCEPT !.address = "null"], counters |-> counted]

(* explorer.ts:441-481: the enriched output and the counters after the call. *)
toExplorerTxOutput(output, counters) ==
    LET script == output.outputScript
        counted == IF isDataOut(script)
                   THEN [sumBurnedSats |-> counters.sumBurnedSats + output.value]
                   ELSE counters
    IN IF isDataOut(script) /\ processScriptRANK(script) # "null"
       THEN [out |-> [Plain(output) EXCEPT !.rankOutput = processScriptRANK(script)],
             counters |-> counted]
       ELSE IF isAddressOut(script)
       THEN [out |-> [Plain(output) EXCEPT !.address = toAddress(script)],
             counters |-> counted]
       ELSE [out |-> Plain(output), counters |-> counted]

RECURSIVE MapOutputs(_, _)
(* explorer.ts:392-396: tx.outputs.map(o => toExplorerTxOutput(o, counters)), *)
(* starting from the counters given.                                        *)
MapOutputs(outputs, counters) ==
    IF outputs = <<>>
    THEN [outs |-> <<>>, counters |-> counters]
    ELSE LET first == toExplorerTxOutput(Head(outputs), counters)
             rest == MapOutputs(Tail(outputs), first.counters)
         IN [outs |-> <<first.out>> \o rest.outs, counters |-> rest.counters]

RECURSIVE getSumBurnedSats(_)
(* explorer.ts:488-497, over the outputs of the transaction. *)
getSumBurnedSats(outputs) ==
    IF outputs = <<>>
    THEN 0
    ELSE LET output == outputs[Len(outputs)]
             acc == getSumBurnedSats(SubSeq(outputs, 1, Len(outputs) - 1))
         IN IF StartsWith6a(output.outputScript) /\ output.value > 0
            THEN acc + output.value
            ELSE acc

(* explorer.ts:402 *)
Confirmations(blockHeight, blockchainInfo) ==
    IF blockHeight # 0 THEN blockchainInfo - blockHeight + 1 ELSE 0

(* Messages of the errors the indexer client throws. *)
UpstreamErrors == {"Not Found", "connect ECONNREFUSED"}

(* What a lookup failed with: nothing, an absent result, or an error thrown *)
(* with a message.                                                          *)
NoFailure == [kind |-> "none", message |-> ""]

NoResponse ==
    [status |-> 0, kind |-> "none", error |-> "", blockHeight |-> 0,
     confirmations |-> 0, outputs |-> <<>>, sumBurnedSats |-> 0]

IdleTx ==
    [pc |-> "idle", blockchainInfo |-> 0, failure |-> NoFailure, res |-> NoResponse]

(* A block is mined.  A transaction still in the mempool may be included. *)
MineBlock ==
    /\ tipHeight < MaxHeight
    /\ tipHeight' = tipHeight + 1
    /\ \/ txBlock' = txBlock
       \/ txBlock = 0 /\ txBlock' = tipHeight + 1
    /\ UNCHANGED <<txOutputs, tx>>
    /\ UNCHANGED <<overviewVars, pageVars, lookupVars>>

(* explorer.ts:369-375: raw=1, the handler suspends at getRawTransaction(). *)
TxRequestRaw ==
    /\ tx.pc = "idle"
    /\ tx' = [tx EXCEPT !.pc = "awaitRaw"]
    /\ UNCHANGED <<tipHeight, txBlock, txOutputs>>
    /\ UNCHANGED <<overviewVars, pageVars, lookupVars>>

(* explorer.ts:375-376: res.json(tx) with the node's transaction. *)
TxRespondRaw ==
    /\ tx.pc = "awaitRaw"
    /\ tx' = [tx EXCEPT !.pc = "responded",
                        !.res = [NoResponse EXCEPT !.status = 200, !.kind = "raw"]]
    /\ UNCHANGED <<tipHeight, txBlock, txOutputs>>
    /\ UNCHANGED <<overviewVars, pageVars, lookupVars>>

(* explorer.ts:369-379: the handler suspends at getBlockCount(). *)
TxRequest ==
    /\ tx.pc = "idle"
    /\ tx' = [tx EXCEPT !.pc = "awaitBlockCount"]
    /\ UNCHANGED <<tipHeight, txBlock, txOutputs>>
    /\ UNCHANGED <<overviewVars, pageVars, lookupVars>>

(* explorer.ts:379-383: getBlockCount() resolves with the node's height;    *)
(* the handler suspends at chronikClient.tx(txid).                          *)
TxBlockCount ==
    /\ tx.pc = "awaitBlockCount"
    /\ tx' = [tx EXCEPT !.pc = "awaitTx", !.blockchainInfo = tipHeight]
    /\ UNCHANGED <<tipHeight, txBlock, txOutputs>>
    /\ UNCHANGED <<overviewVars, pageVars, lookupVars>>

(* explorer.ts:375 and 379: the node's call rejects outside any try block;  *)
(* the handler's promise rejects and no response is sent by the handler.    *)
TxRpcRejected ==
    /\ tx.pc \in {"awaitRaw", "awaitBlockCount"}
    /\ tx' = [tx EXCEPT !.pc = "rejected"]
    /\ UNCHANGED <<tipHeight, txBlock, txOutputs>>
    /\ UNCHANGED <<overviewVars, pageVars, lookupVars>>

(* explorer.ts:383-390: chronikClient.tx() throws; the response is         *)
(* { error: 'transaction not found', txid } with status 404.                *)
TxNotFound(message) ==
    /\ tx.pc = "awaitTx"
    /\ tx' = [tx EXCEPT !.pc = "responded",
                        !.failure = [kind |-> "throws", message |-> message],
                        !.res = [NoResponse EXCEPT !.status = 404, !.kind = "error",
                                                   !.error = "transaction not found"]]
    /\ UNCHANGED <<tipHeight, txBlock, txOutputs>>
    /\ UNCHANGED <<overviewVars, pageVars, lookupVars>>

(* explorer.ts:383 and 392-404: chronikClient.tx() resolves with the        *)
(* transaction as the indexer holds it now; the response is built and sent. *)
TxRespond ==
    /\ tx.pc = "awaitTx"
    /\ LET mapped == MapOutputs(txOutputs, [sumBurnedSats |-> 0]) IN
        tx' = [tx EXCEPT !.pc = "responded",
                  !.res = [status |-> 200, kind |-> "enriched", error |-> "",
                           blockHeight |-> txBlock,
                           confirmations |-> Confirmations(txBlock, tx.blockchainInfo),
                           outputs |-> mapped.outs,
                           sumBurnedSats |-> mapped.counters.sumBurnedSats]]
    /\ UNCHANGED <<tipHeight, txBlock, txOutputs>>
    /\ UNCHANGED <<overviewVars, pageVars, lookupVars>>

(* The request is over; the client's next request takes its place. *)
TxDone ==
    /\ tx.pc \in {"responded", "rejected"}
    /\ tx' = IdleTx
    /\ UNCHANGED <<tipHeight, txBlock, txOutputs>>
    /\ UNCHANGED <<overviewVars, pageVars, lookupVars>>

(***************************************************************************)
(* GET /block/:hashOrHeight, and the indexer lookups of GET /address       *)
(***************************************************************************)
MaxBlockTxs == 2    \* most transactions of a block

(* The outputs of a coinbase transaction. *)
BlockOutputs == [value : {0, MaxValue}, outputScript : ScriptKinds]
BlockOutputLists == UNION {[1..n -> BlockOutputs] : n \in 0..MaxOutputs}

(* The transactions that follow the coinbase: one that burns, one that pays *)
(* an address and carries an empty data output.                             *)
SpendTxs ==
    {[outputs |-> <<[value |-> MaxValue, outputScript |-> "opreturn"]>>],
     [outputs |-> <<[value |-> 1, outputScript |-> "p2pkh"],
                    [value |-> 0, outputScript |-> "nulldata"]>>]}

BlockTxLists ==
    {<<[outputs |-> coinbase]>> \o rest :
        coinbase \in BlockOutputLists,
        rest \in UNION {[1..n -> SpendTxs] : n \in 0..(MaxBlockTxs - 1)}}

(* A Block of the indexer: blockInfo.height and txs, the coinbase first. *)
Blocks == [height : {0, 1, MaxHeight}, txs : BlockTxLists]

NoBlock == [height |-> 0, txs |-> <<>>]

(* explorer.ts:326-328  Address.toXAddress(): the X-address text. *)
toXAddress(address) ==
    CASE address = "addressP2PKH" -> "xaddressP2PKH"
      [] address = "addressP2SH" -> "xaddressP2SH"
      [] address = "addressP2TR" -> "xaddressP2TR"

(* A transaction of a response: the indexer's fields, and sumBurnedSats     *)
(* when the object has that field (extended).                               *)
AsReceived(t) == [outputs |-> t.outputs, extended |-> FALSE, sumBurnedSats |-> 0]

(* explorer.ts:317-320 *)
WithSumBurnedSats(t) ==
    [outputs |-> t.outputs, extended |-> TRUE,
     sumBurnedSats |-> getSumBurnedSats(t.outputs)]

NoBody == [height |-> 0, txs |-> <<>>, minedBy |-> "absent"]

BlockResponseNoGenesisCheck(block) ==
    LET txs == [k \in 1..Len(block.txs) |-> WithSumBurnedSats(block.txs[k])]
        coinbase == block.txs[1].outputs
    IN IF Len(coinbase) < 2 \/ ~isAddressOut(coinbase[2].outputScript)
       THEN [throws |-> TRUE, body |-> NoBody]
       ELSE [throws |-> FALSE,
             body |-> [height |-> block.height, txs |-> txs,
                       minedBy |-> toXAddress(toAddress(coinbase[2].outputScript))]]

(* explorer.ts:309-329: what the handler does with the block it received.   *)
(* Height 0: the block as it is.  Otherwise every transaction gets          *)
(* sumBurnedSats, and minedBy is read from block.txs[0].outputs[1]; a       *)
(* missing output (undefined.outputScript) or a script toAddress() does not *)
(* decode (a falsy value, on which toXAddress is not a function) throws a   *)
(* TypeError.                                                               *)
BlockResponse(block) ==
    IF block.height = 0
    THEN [throws |-> FALSE,
          body |-> [height |-> 0,
                    txs |-> [k \in 1..Len(block.txs) |-> AsReceived(block.txs[k])],
                    minedBy |-> "absent"]]
    ELSE LET txs == [k \in 1..Len(block.txs) |-> WithSumBurnedSats(block.txs[k])]
             coinbase == block.txs[1].outputs
         IN IF Len(coinbase) < 2 \/ ~isAddressOut(coinbase[2].outputScript)
            THEN [throws |-> TRUE, body |-> NoBody]
            ELSE [throws |-> FALSE,
                  body |-> [height |-> block.height, txs |-> txs,
                            minedBy |-> toXAddress(toAddress(coinbase[2].outputScript))]]

NoReply == [status |-> 0, error |-> "", body |-> NoBody]

IdleLookup ==
    [handler |-> "none", pc |-> "idle", includeBalance |-> FALSE,
     block |-> NoBlock, failure |-> NoFailure, res |-> NoReply, exited |-> FALSE]

(* sendJSON(res, { error: message }, HTTP.NOT_FOUND) *)
NotFoundReply(message) == [NoReply EXCEPT !.status = 404, !.error = message]

(* explorer.ts:289-301: the handler suspends at chronikClient.block(). *)
BlockRequest ==
    /\ lk.pc = "idle"
    /\ lk' = [IdleLookup EXCEPT !.handler = "block", !.pc = "awaitBlock"]
    /\ UNCHANGED <<overviewVars, pageVars, txVars>>

(* explorer.ts:301 and 305-307: chronikClient.block() throws. *)
BlockThrows(message) ==
    /\ lk.handler = "block" /\ lk.pc = "awaitBlock"
    /\ lk' = [lk EXCEPT !.pc = "responded",
                        !.failure = [kind |-> "throws", message |-> message],
                        !.res = NotFoundReply(message)]
    /\ UNCHANGED <<overviewVars, pageVars, txVars>>

(* explorer.ts:301-307: chronikClient.block() resolves with no block. *)
BlockAbsent ==
    /\ lk.handler = "block" /\ lk.pc = "awaitBlock"
    /\ lk' = [lk EXCEPT !.pc = "responded",
                        !.failure = [kind |-> "absent", message |-> ""],
                        !.res = NotFoundReply("block not found")]
    /\ UNCHANGED <<overviewVars, pageVars, txVars>>

(* explorer.ts:301 and 309-329: chronikClient.block() resolves with a       *)
(* block; the handler sends its response, or throws while deriving minedBy  *)
(* (outside any try block: the handler's promise rejects).                  *)
BlockResolved ==
    /\ lk.handler = "block" /\ lk.pc = "awaitBlock"
    /\ \E block \in Blocks :
        LET r == BlockResponse(block) IN
        lk' = IF r.throws
              THEN [lk EXCEPT !.pc = "rejected", !.block = block]
              ELSE [lk EXCEPT !.pc = "responded", !.block = block,
                              !.res = [NoReply EXCEPT !.status = 200, !.body = r.body]]
    /\ UNCHANGED <<overviewVars, pageVars, txVars>>

(* explorer.ts:215-243: a valid address, with or without includeBalance=1; *)
(* the handler suspends at scriptEndpoint.history().                        *)
AddressLookupRequest(includeBalance) ==
    /\ lk.pc = "idle"
    /\ lk' = [IdleLookup EXCEPT !.handler = "address", !.pc = "awaitHistory",
                                !.includeBalance = includeBalance]
    /\ UNCHANGED <<overviewVars, pageVars, txVars>>

(* explorer.ts:237-246: script() or history() throws inside the try block. *)
HistoryThrows(message) ==
    /\ lk.handler = "address" /\ lk.pc = "awaitHistory"
    /\ lk' = [lk EXCEPT !.pc = "responded",
                        !.failure = [kind |-> "throws", message |-> message],
                        !.res = NotFoundReply(message)]
    /\ UNCHANGED <<overviewVars, pageVars, txVars>>

(* explorer.ts:240-280: history() resolves; with includeBalance=1 the       *)
(* handler suspends at utxos(), otherwise it sends the page.                *)
HistoryResolved ==
    /\ lk.handler = "address" /\ lk.pc = "awaitHistory"
    /\ lk' = IF lk.includeBalance
             THEN [lk EXCEPT !.pc = "awaitUtxos"]
             ELSE [lk EXCEPT !.pc = "responded", !.res = [NoReply EXCEPT !.status = 200]]
    /\ UNCHANGED <<overviewVars, pageVars, txVars>>

(* explorer.ts:269-280: utxos() resolves; the page is sent with the balance. *)
UtxosResolved ==
    /\ lk.handler = "address" /\ lk.pc = "awaitUtxos"
    /\ lk' = [lk EXCEPT !.pc = "responded", !.res = [NoReply EXCEPT !.status = 200]]
    /\ UNCHANGED <<overviewVars, pageVars, txVars>>

(* explorer.ts:269-271: script() or utxos() throws, outside any try block:  *)
(* the handler's promise rejects and the handler sends nothing.             *)
UtxosThrows(message) ==
    /\ lk.handler = "address" /\ lk.pc = "awaitUtxos"
    /\ lk' = [lk EXCEPT !.pc = "rejected",
                        !.failure = [kind |-> "throws", message |-> message]]
    /\ UNCHANGED <<overviewVars, pageVars, txVars>>

(* The promise of an async handler registered with router.get() rejected.   *)
(* A router that observes the promise passes the error on, and with no      *)
(* error middleware installed (api/index.ts:57-83) the framework's default  *)
(* handler answers 500.                                                     *)
HandlerErrorResponse ==
    /\ lk.pc = "rejected"
    /\ lk' = [lk EXCEPT !.pc = "responded", !.res = [NoReply EXCEPT !.status = 500]]
    /\ UNCHANGED <<overviewVars, pageVars, txVars>>

(* A router that calls the handler and drops the promise leaves the         *)
(* rejection unhandled: the client gets no response, and the runtime either *)
(* warns or, no 'unhandledRejection' listener being registered              *)
(* (index.ts:17-18 registers SIGINT and SIGTERM only), ends the process.    *)
HandlerUnhandledRejection(exits) ==
    /\ lk.pc = "rejected"
    /\ lk' = [lk EXCEPT !.pc = "unanswered", !.exited = exits]
    /\ UNCHANGED <<overviewVars, pageVars, txVars>>

(* The request is over; the client's next request takes its place. *)
LookupDone ==
    /\ lk.pc \in {"responded", "unanswered"}
    /\ ~lk.exited
    /\ lk' = IdleLookup
    /\ UNCHANGED <<overviewVars, pageVars, txVars>>

(***************************************************************************)
(* Specifications                                                          *)
(***************************************************************************)
OverviewIdle ==
    /\ nodePeers = <<>>
    /\ GEOIP_CACHE = <<>>
    /\ ov = [r \in Requests |-> IdleOverview]
    /\ running = {}

PageIdle == pg = IdlePage

LookupIdle == lk = IdleLookup

TxIdle ==
    /\ tipHeight = 1
    /\ txBlock = 0
    /\ txOutputs = <<>>
    /\ tx = IdleTx

(* The process after start-up, with the peer list the node reports. *)
InitOverview ==
    /\ nodePeers \in PeerLists
    /\ GEOIP_CACHE = <<>>
    /\ ov = [r \in Requests |-> IdleOverview]
    /\ running = {}
    /\ PageIdle
    /\ TxIdle
    /\ LookupIdle

NextOverview ==
    \E r \in Requests :
        \/ OverviewRequest(r)
        \/ OverviewPeerInfo(r)
        \/ OverviewSkipPrivate(r)
        \/ OverviewCacheHit(r)
        \/ OverviewCacheMiss(r)
        \/ OverviewFetchResolved(r)
        \/ OverviewFetchRejected(r)
        \/ OverviewJsonRejected(r)
        \/ \E json \in GeoIPResponses : OverviewJsonResolved(r, json)
        \/ OverviewLoopEnd(r)
        \/ OverviewRespond(r)

SpecOverview == InitOverview /\ [][NextOverview]_vars

InitPage == OverviewIdle /\ PageIdle /\ TxIdle /\ LookupIdle

NextPage ==
    \/ \E page \in AddressPageInputs, pageSize \in PageSizeInputs :
            AddressRequest(page, pageSize)
    \/ \E page \in PageInputs, pageSize \in PageSizeInputs : BlocksRequest(page, pageSize)
    \/ \E tip \in 0..MaxTip : BlocksChainInfo(tip)
    \/ BlocksRespond
    \/ PageDone

SpecPage == InitPage /\ [][NextPage]_vars

(* The chain holds the genesis block and one more; the transaction looked   *)
(* up is in the mempool or in block 1.                                      *)
InitTx ==
    /\ OverviewIdle
    /\ PageIdle
    /\ tipHeight = 1
    /\ txBlock \in {0, 1}
    /\ txOutputs \in OutputLists
    /\ tx = IdleTx
    /\ LookupIdle

NextTx ==
    \/ MineBlock
    \/ TxRequestRaw
    \/ TxRespondRaw
    \/ TxRequest
    \/ TxBlockCount
    \/ TxRpcRejected
    \/ \E message \in UpstreamErrors : TxNotFound(message)
    \/ TxRespond
    \/ TxDone

SpecTx == InitTx /\ [][NextTx]_vars

InitLookup == OverviewIdle /\ PageIdle /\ TxIdle /\ LookupIdle

NextLookup ==
    \/ BlockRequest
    \/ \E message \in UpstreamErrors : BlockThrows(message)
    \/ BlockAbsent
    \/ BlockResolved
    \/ \E includeBalance \in BOOLEAN : AddressLookupRequest(includeBalance)
    \/ \E message \in UpstreamErrors : HistoryThrows(message)
    \/ HistoryResolved
    \/ UtxosResolved
    \/ \E message \in UpstreamErrors : UtxosThrows(message)
    \/ HandlerErrorResponse
    \/ \E exits \in BOOLEAN : HandlerUnhandledRejection(exits)
    \/ LookupDone

SpecLookup == InitLookup /\ [][NextLookup]_vars

(***************************************************************************)
(* Properties                                                              *)
(***************************************************************************)
EnrichedSent == tx.pc = "responded" /\ tx.res.kind = "enriched"

(* C1: the sumBurnedSats of a transaction-lookup response (the counter      *)
(* incremented in toExplorerTxOutput) equals what getSumBurnedSats computes *)
(* for the same transaction, the sum of the values of the outputs that are  *)
(* data-carrying and have a value > 0.  Checked under SpecTx.               *)
C1_BurnTotalsAgree ==
    EnrichedSent => tx.res.sumBurnedSats = getSumBurnedSats(txOutputs)

PageSizeRead == pg.handler \in {"address", "blocks"}

(* C2: in /address and in /blocks, a pageSize that is <= 0, non-numeric or  *)
(* absent gives the effective page size DEFAULT_PAGE_SIZE, a pageSize above *)
(* MAX_PAGE_SIZE gives MAX_PAGE_SIZE, and the effective page size is always *)
(* within 1..MAX_PAGE_SIZE.  Checked under SpecPage.                        *)
C2_EffectivePageSize ==
    PageSizeRead =>
        /\ (pg.pageSize.kind # "int" \/ pg.pageSize.n <= 0)
                => pg.pageSizeNum = DEFAULT_PAGE_SIZE
        /\ (pg.pageSize.kind = "int" /\ pg.pageSize.n > MAX_PAGE_SIZE)
                => pg.pageSizeNum = MAX_PAGE_SIZE
        /\ pg.pageSizeNum \in 1..MAX_PAGE_SIZE

BlocksCalled == pg.handler = "blocks" /\ pg.pc \in {"awaitBlocks", "responded"}

C4_PrivatePeersNeverListed ==
    \A r \in Requests :
        ov[r].pc = "responded" =>
            \A k \in 1..Len(ov[r].peers) : ov[r].peers[k].addr.host \notin PrivateHosts

(* C5: when the loop of an /overview request reaches a peer whose bare IP   *)
(* is a key of the Geo Cache, it pushes the peer with the cached data and   *)
(* goes on without calling the geolocation service; and no step removes a   *)
(* key from the cache.  Checked under SpecOverview.                         *)
C5_CachedIpNotFetched ==
    [][ /\ \A r \in Requests :
            (/\ InLoop(r)
             /\ ~IsSkippedPeer(CurAddr(r))
             /\ StripPort(CurAddr(r)) \in DOMAIN GEOIP_CACHE)
            => LET ip == StripPort(CurAddr(r)) IN
               /\ ov'[r].pc = "loop"
               /\ ov'[r].i = ov[r].i + 1
               /\ ov'[r].fetches = ov[r].fetches
               /\ ov'[r].peers =
                    Append(ov[r].peers, PeerEntry(ov[r].i, ip, GEOIP_CACHE[ip].data))
        /\ DOMAIN GEOIP_CACHE \subseteq DOMAIN GEOIP_CACHE'
      ]_vars

(* A response that lists a peer although its request issued no fetch():     *)
(* the peer came from the cache.                                           *)
C5_Witness ==
    \E r \in Requests :
        /\ ov[r].pc = "responded"
        /\ ov[r].fetches = 0
        /\ Len(ov[r].peers) > 0

(* The request r resumes after a successful lookup: lines 182-187 run. *)
SetsCache(r) ==
    /\ ov[r].pc = "awaitJson"
    /\ Len(ov'[r].peers) > Len(ov[r].peers)

(* C6 as stated: a key of the Geo Cache is set at most once, and its value  *)
(* is never overwritten.  Checked under SpecOverview.                       *)
C6_WriteOncePerKey ==
    [][ /\ \A r \in Requests :
            SetsCache(r) => StripPort(CurAddr(r)) \notin DOMAIN GEOIP_CACHE
        /\ \A k \in DOMAIN GEOIP_CACHE :
            k \in DOMAIN GEOIP_CACHE' /\ GEOIP_CACHE'[k] = GEOIP_CACHE[k]
      ]_vars

(* C6 as amended: a key of the Geo Cache is never removed, and a request    *)
(* sets a key only with a successful answer and only if the key was absent  *)
(* when that request checked it, before it suspended at the lookup.        *)
(* Requests that missed on the same IP while none had yet set it each set   *)
(* the key: the last write wins.  Checked under SpecOverview.               *)
C6_SetOnlyAfterOwnMiss ==
    [][ /\ DOMAIN GEOIP_CACHE \subseteq DOMAIN GEOIP_CACHE'
        /\ \A r \in Requests : SetsCache(r) => ov[r].missed
        /\ \A k \in DOMAIN GEOIP_CACHE' :
            (k \notin DOMAIN GEOIP_CACHE \/ GEOIP_CACHE'[k] # GEOIP_CACHE[k])
            => /\ GEOIP_CACHE'[k].success
               /\ \E r \in Requests :
                    /\ SetsCache(r)
                    /\ ov[r].missed
                    /\ StripPort(CurAddr(r)) = k
      ]_vars

(* A request suspended at a lookup it issued on a miss, while another       *)
(* request has set the key since: its own set will be the second.           *)
C6_Witness ==
    \E r \in Requests :
        /\ ov[r].pc = "awaitJson"
        /\ ov[r].missed
        /\ StripPort(CurAddr(r)) \in DOMAIN GEOIP_CACHE

(* C7: a lookup that fails (fetch() rejects, the body does not parse, or    *)
(* success is false) omits that peer alone and writes nothing to the cache: *)
(* the request goes on with the next peer.  Checked under SpecOverview.     *)
C7_FailedLookupOmitsPeerOnly ==
    [][ \A r \in Requests :
            (ov[r].pc \in {"awaitFetch", "awaitJson"} /\ ov'[r] # ov[r])
            => \/ ov'[r].pc = "awaitJson"
               \/ /\ ov'[r].pc = "loop"
                  /\ ov'[r].i = ov[r].i + 1
                  /\ (ov'[r].peers = ov[r].peers => GEOIP_CACHE' = GEOIP_CACHE)
      ]_vars

(* C8 as stated: no two entries of the peerInfo of a response have the same *)
(* port-stripped IP.  Checked under SpecOverview.                           *)
C8_DedupByBareIp ==
    \A r \in Requests :
        ov[r].pc = "responded" =>
            \A j, k \in 1..Len(ov[r].peers) :
                j # k => ov[r].peers[j].addr # ov[r].peers[k].addr

(* C8 as amended: the peerInfo of a response has at most one entry for each *)
(* peer the node reported (not for each IP): the entries follow the node's  *)
(* order, and each carries the port-stripped address of its own peer, a     *)
(* peer that neither pattern matched.  Checked under SpecOverview.          *)
C8_OneEntryPerPeer ==
    \A r \in Requests :
        LET peers == ov[r].peers IN
        /\ \A j, k \in 1..Len(peers) : j < k => peers[j].id < peers[k].id
        /\ \A k \in 1..Len(peers) :
            /\ peers[k].id \in 1..Len(nodePeers)
            /\ peers[k].addr = StripPort(nodePeers[peers[k].id])
            /\ ~IsSkippedPeer(nodePeers[peers[k].id])

(* A response listing two peers of the same IP that differ in their port. *)
C8_Witness ==
    \E r \in Requests :
        /\ ov[r].pc = "responded"
        /\ Len(ov[r].peers) = 2
        /\ ov[r].peers[1].addr = ov[r].peers[2].addr
        /\ nodePeers[1].port # nodePeers[2].port

(* C9: an output of a transaction-lookup response carries at most one of    *)
(* address and rankOutput: a data-carrying output whose payload decodes has *)
(* the payload only, one whose payload does not decode has neither, an      *)
(* address-type output has the address only, any other output has neither; *)
(* the output's own fields are unchanged.  Checked under SpecTx.            *)
C9_AtMostOneEnrichment ==
    EnrichedSent =>
        /\ Len(tx.res.outputs) = Len(txOutputs)
        /\ \A k \in 1..Len(txOutputs) :
            LET o == txOutputs[k]
                e == tx.res.outputs[k]
                decoded == processScriptRANK(o.outputScript)
            IN
            /\ e.value = o.value
            /\ e.outputScript = o.outputScript
            /\ e.address = "absent" \/ e.rankOutput = "absent"
            /\ (isDataOut(o.outputScript) /\ decoded # "null")
                    => (e.rankOutput = decoded /\ e.address = "absent")
            /\ (isDataOut(o.outputScript) /\ decoded = "null")
                    => (e.rankOutput = "absent" /\ e.address = "absent")
            /\ isAddressOut(o.outputScript)
                    => (e.address = toAddress(o.outputScript) /\ e.rankOutput = "absent")
            /\ (~isDataOut(o.outputScript) /\ ~isAddressOut(o.outputScript))
                    => (e.rankOutput = "absent" /\ e.address = "absent")

(* A response with a decoded RANK output next to an address output. *)
C9_Witness ==
    /\ EnrichedSent
    /\ \E j, k \in 1..Len(tx.res.outputs) :
        /\ tx.res.outputs[j].rankOutput = "rankPayload"
        /\ tx.res.outputs[k].address = "addressP2PKH"

(* C10: the confirmations of a transaction-lookup response are an integer   *)
(* >= 0, 0 exactly when the transaction has no block, and                   *)
(* chainHeight - blockHeight + 1 >= 1 when it has one.  Checked under       *)
(* SpecTx, where blocks are mined between the handler's two reads.          *)
C10_ConfirmationsNonNegative ==
    EnrichedSent =>
        /\ tx.res.confirmations >= 0
        /\ tx.res.confirmations = 0 <=> tx.res.blockHeight = 0
        /\ tx.res.blockHeight # 0 =>
            /\ tx.res.confirmations = tx.blockchainInfo - tx.res.blockHeight + 1
            /\ tx.res.confirmations >= 1

HistoryCalled == pg.handler = "address" /\ pg.pc = "awaitHistory"

(* C13: in /address, for every page input <= 0 and for a non-numeric or     *)
(* absent page the page offset passed to the indexer's history() is 0, and  *)
(* for every page input the offset passed is never negative.  Checked under *)
(* SpecPage; the offset pg.argA is counted in halves.                       *)
C13_HistoryOffsetNeverNegative ==
    HistoryCalled =>
        /\ (pg.page.kind \in {"absent", "text"} \/ pg.page.n <= 0) => pg.argA = 0
        /\ pg.argA >= 0

LookupEnded == lk.pc \in {"responded", "unanswered"}

(* C11: whenever an upstream lookup reports absence or throws in the        *)
(* address-history handler (the UTXO lookup of includeBalance=1 included),  *)
(* the block-lookup handler or the transaction-lookup handler, the request  *)
(* ends with a 404 response, whose error field is the upstream error        *)
(* message verbatim when the lookup threw.  Checked under SpecLookup.       *)
C11_LookupFailureGives404 ==
    /\ (lk.failure.kind # "none" /\ LookupEnded) =>
            /\ lk.res.status = 404
            /\ lk.failure.kind = "throws" => lk.res.error = lk.failure.message
    /\ (tx.failure.kind # "none" /\ tx.pc = "responded") =>
            /\ tx.res.status = 404
            /\ tx.res.error = tx.failure.message

MalformedCoinbase(block) ==
    \/ Len(block.txs[1].outputs) < 2
    \/ ~isAddressOut(block.txs[1].outputs[2].outputScript)

BlockSent == lk.handler = "block" /\ lk.pc = "responded" /\ lk.res.status = 200

(* C14: the response of a block lookup that fetched a block of height 0 is  *)
(* the indexer's block as received: no minedBy, and no transaction given a  *)
(* sumBurnedSats; the response for a block of height > 0 has every          *)
(* transaction extended with sumBurnedSats and a minedBy derived from       *)
(* output index 1 of its first transaction.  Checked under SpecLookup.      *)
C14_GenesisAsReceived ==
    BlockSent =>
        LET block == lk.block
            body == lk.res.body
        IN /\ body.height = block.height
           /\ Len(body.txs) = Len(block.txs)
           /\ \A k \in 1..Len(block.txs) : body.txs[k].outputs = block.txs[k].outputs
           /\ block.height = 0 =>
                /\ body.minedBy = "absent"
                /\ \A k \in 1..Len(body.txs) : ~body.txs[k].extended
           /\ block.height > 0 =>
                /\ \A k \in 1..Len(body.txs) : body.txs[k].extended
                /\ Len(block.txs[1].outputs) >= 2
                /\ isAddressOut(block.txs[1].outputs[2].outputScript)
                /\ body.minedBy
                     = toXAddress(toAddress(block.txs[1].outputs[2].outputScript))

(* A genesis block whose coinbase pays an address at output index 1 and     *)
(* burns at output index 0, followed by another transaction, was sent.      *)
C14_Witness ==
    /\ BlockSent
    /\ lk.block.height = 0
    /\ Len(lk.block.txs) = 2
    /\ Len(lk.block.txs[1].outputs) = 2
    /\ lk.block.txs[1].outputs[1] = [value |-> MaxValue, outputScript |-> "nulldata"]
    /\ lk.block.txs[1].outputs[2].outputScript = "p2pkh"

====
